---- MODULE Spec2Model ----
EXTENDS Integers, Sequences, FiniteSets, TLC

(***************************************************************************)
(* GitHub repository manager: the menu loop, the paginated collection of   *)
(* the repository listing, the visibility flow and the delete flow of      *)
(* src/src/github-repo-manager.ts, run against a remote account.           *)
(***************************************************************************)

\* ---------------------------------------------------------------- bounds
\* Size of the small accounts, and the number of names the operator ticks from.
MaxRepos == 3

\* ------------------------------------------------------ program constants
PerPage == 100
VisibilityDelay == 100
DeleteDelay == 200

\* ------------------------------------------------------------ environment
Names == <<"a", "b", "c", "d", "e">>
Pickable == {Names[k] : k \in 1..MaxRepos}
BigTotals == {100, 237, 300}
Logins == {"octocat", "hubot"}
ConfirmInputs == {"DELETE", "delete", "Delete", ""}
Visibilities == {"public", "private"}
MenuActions == {"visibility", "delete", "list", "exit"}

Min(x, y) == IF x < y THEN x ELSE y

\* updated_at of a repository for which the remote sends none, and the time
\* of the fetch, later than every updated_at.
NoTimestamp == 0
FetchTime == 1000

\* The listing the remote holds for the authenticated user, most recently
\* updated first; the last repository may come without updated_at.
SmallAccounts ==
  UNION { { [k \in 1..n |-> [name |-> Names[k], private |-> v[k],
                             updated_at |-> IF u /\ k = n THEN NoTimestamp
                                            ELSE n + 1 - k]] :
            v \in [1..n -> BOOLEAN], u \in BOOLEAN } : n \in 0..MaxRepos }

BigAccount(total) ==
  [k \in 1..total |->
     [name |-> IF k = 1 THEN Names[2]
               ELSE IF k = total THEN Names[1]
               ELSE "r" \o ToString(k),
      private |-> IF k \in {1, total} THEN FALSE ELSE k % 2 = 0,
      updated_at |-> total + 1 - k]]

Accounts == SmallAccounts \cup {BigAccount(t) : t \in BigTotals}

\* repos.listForAuthenticatedUser({per_page, page}): one page of the listing.
listForAuthenticatedUser(account, perPage, pageNo) ==
  SubSeq(account, (pageNo - 1) * perPage + 1, Min(pageNo * perPage, Len(account)))

\* repos.update({owner, repo, private}) as the remote applies it.
remoteUpdate(account, repoName, private) ==
  [k \in 1..Len(account) |->
     IF account[k].name = repoName
       THEN [account[k] EXCEPT !.private = private]
       ELSE account[k]]

\* repos.delete({owner, repo}) as the remote applies it.
remoteDelete(account, repoName) ==
  SelectSeq(account, LAMBDA r : r.name # repoName)

\* --------------------------------------------------------- pure helpers
\* The record built from one raw repository.
toRepository(raw) ==
  [name |-> raw.name, private |-> raw.private,
   updatedAt |-> IF raw.updated_at = NoTimestamp THEN FetchTime
                 ELSE raw.updated_at]

mapRepositories(data) == [k \in 1..Len(data) |-> toRepository(data[k])]

\* Variant: the loop goes on after any page that is not empty.
hasMoreWhileNonEmpty(data) == Len(data) > 0

\* hasMore = data.length === 100
hasMoreAfter(data) == Len(data) = PerPage

\* Variant: the catch returns what was collected so far.
catchFetchErrorPartial(partial) == [threw |-> FALSE, value |-> partial]

\* Variant: no catch, the failure leaves getAllRepositories.
catchFetchErrorRethrow(partial) == [threw |-> TRUE, value |-> <<>>]

\* catch (error) { return [] } of getAllRepositories
catchFetchError(partial) == [threw |-> FALSE, value |-> <<>>]

\* Utils.sortRepositories(repos, 'updated'): Array.prototype.sort is stable, and
\* the comparator puts the later updatedAt first. A record's place is one more
\* than the number of records the sort puts before it.
sortRank(rs, k) ==
  Cardinality({j \in 1..Len(rs) :
                 \/ rs[j].updatedAt > rs[k].updatedAt
                 \/ rs[j].updatedAt = rs[k].updatedAt /\ j < k}) + 1

sortRepositories(rs) ==
  LET placed == {<<sortRank(rs, k), k>> : k \in 1..Len(rs)}
  IN [p \in 1..Len(rs) |-> rs[(CHOOSE pk \in placed : pk[1] = p)[2]]]

\* Variant: the filter keeps the records already in the target state.
filterReposSame(rs, isTargetPrivate) ==
  SelectSeq(rs, LAMBDA r : r.private = isTargetPrivate)

\* repos.filter((repo) => repo.private !== isTargetPrivate)
filterRepos(rs, isTargetPrivate) ==
  SelectSeq(rs, LAMBDA r : r.private # isTargetPrivate)

\* repoChoices: the value of each choice is the repository name.
choiceValues(rs) == [k \in 1..Len(rs) |-> rs[k].name]

\* The checkbox prompt answers with the ticked values in the order of the choices.
checkboxAnswer(choices, ticked) == SelectSeq(choices, LAMBDA n : n \in ticked)

\* Variant: the constructor goes on without the token.
tokenNotChecked(tok) == FALSE

\* if (!token) process.exit(1)
tokenMissing(tok) == ~tok

\* if (selectedRepos.length === 0) return
nothingSelected(selected) == Len(selected) = 0

\* Variant: the answer of the yes/no prompt is not looked at.
confirmIgnored(confirm) == FALSE

\* if (!confirm) return
confirmDeclined(confirm) == ~confirm

\* validate: (input) => input === 'DELETE' ? true : '...'
validate(input) == input = "DELETE"

\* if (confirmDelete !== 'DELETE') return
deleteDeclined(confirmDelete) == confirmDelete # "DELETE"

\* Variant: no catch around the call, a failure leaves the loop.
catchMutationErrorRethrow(ok) == [threw |-> ~ok, success |-> ok]

\* try { await call; successCount++ } catch { errorCount++ }
catchMutationError(ok) == [threw |-> FALSE, success |-> ok]

successAfter(count, success) == IF success THEN count + 1 ELSE count

\* Variant: a failure is not counted.
errorAfterLost(count, success) == count

errorAfter(count, success) == IF success THEN count ELSE count + 1

\* if (i < selectedRepos.length - 1) await Utils.delay(...)
delayBeforeNext(idx, n) == idx < n - 1

\* Variant: both loops wait the delay of the visibility loop.
delayForSame(f) == VisibilityDelay

\* Utils.delay(100) in the visibility loop, Utils.delay(200) in the delete loop
delayFor(f) == IF f = "delete" THEN DeleteDelay ELSE VisibilityDelay

\* ------------------------------------------------------------------ state
VARIABLES
  token,            \* GITHUB_TOKEN is set
  login,            \* the login the remote answers for the credential
  pc,               \* where the process is waiting
  username,         \* this.username
  remote,           \* the account's listing at the remote
  flow,             \* the menu action being run
  targetVisibility, \* answer of the visibility prompt
  page,             \* getAllRepositories: page
  repositories,     \* getAllRepositories: repositories
  pageLog,          \* page numbers requested by the current collection
  pageLens,         \* lengths of the pages received by the current collection
  collected,        \* "none", "running", "ok" or "failed"
  repos,            \* the flow's repos
  filteredRepos,    \* the visibility flow's filteredRepos
  repoChoices,      \* values of the checkbox choices
  selectedRepos,    \* answer of the checkbox prompt
  confirm,          \* answer of the yes/no prompt
  promptInput,      \* last text entered at the DELETE prompt, if any
  confirmDelete,    \* answer of the DELETE prompt
  i,                \* loop index of the batch
  successCount,
  errorCount,
  calls,            \* mutation calls issued by the current flow
  results,          \* their outcomes, in order
  events,           \* progress, call and delay events of the current batch
  summary,          \* the summary line printed, if any
  stages,           \* stages the current flow went through
  outcome,          \* how the last flow ended
  prev              \* what the flow before the current one was and did

collectVars == <<page, repositories, pageLog, pageLens, collected>>
promptVars == <<selectedRepos, confirm, promptInput, confirmDelete>>
batchVars == <<i, successCount, errorCount, calls, results, events, summary>>
vars == <<token, login, pc, username, remote, flow, targetVisibility,
          page, repositories, pageLog, pageLens, collected,
          repos, filteredRepos, repoChoices,
          selectedRepos, confirm, promptInput, confirmDelete,
          i, successCount, errorCount, calls, results, events, summary,
          stages, outcome, prev>>

NoPrev == [flow |-> "none", target |-> "none", outcome |-> "none", clean |-> FALSE]

Init ==
  /\ token \in BOOLEAN
  /\ login \in Logins
  /\ pc = "boot"
  /\ username = ""
  /\ remote \in Accounts
  /\ flow = "none"
  /\ targetVisibility = "none"
  /\ page = 1
  /\ repositories = <<>>
  /\ pageLog = <<>>
  /\ pageLens = <<>>
  /\ collected = "none"
  /\ repos = <<>>
  /\ filteredRepos = <<>>
  /\ repoChoices = <<>>
  /\ selectedRepos = <<>>
  /\ confirm = FALSE
  /\ promptInput = <<>>
  /\ confirmDelete = ""
  /\ i = 0
  /\ successCount = 0
  /\ errorCount = 0
  /\ calls = <<>>
  /\ results = <<>>
  /\ events = <<>>
  /\ summary = <<>>
  /\ stages = <<>>
  /\ outcome = "none"
  /\ prev = NoPrev

\* ---------------------------------------------------------------- startup
\* constructor: a missing token ends the process.
Construct ==
  /\ pc = "boot"
  /\ pc' = IF tokenMissing(token) THEN "fatal" ELSE "start"
  /\ UNCHANGED <<token, login, username, remote, flow, targetVisibility,
                 collectVars, repos, filteredRepos, repoChoices, promptVars,
                 batchVars, stages, outcome, prev>>

\* start: users.getAuthenticated answers.
AuthenticateOk ==
  /\ pc = "start"
  /\ username' = login
  /\ pc' = "menu"
  /\ UNCHANGED <<token, login, remote, flow, targetVisibility,
                 collectVars, repos, filteredRepos, repoChoices, promptVars,
                 batchVars, stages, outcome, prev>>

\* start: users.getAuthenticated rejects; the catch ends the process.
AuthenticateFail ==
  /\ pc = "start"
  /\ pc' = "fatal"
  /\ UNCHANGED <<token, login, username, remote, flow, targetVisibility,
                 collectVars, repos, filteredRepos, repoChoices, promptVars,
                 batchVars, stages, outcome, prev>>

\* ------------------------------------------------------------------- menu
\* Whether the flow that just ended left no repository eligible for its target.
leftClean ==
  /\ flow = "visibility"
  /\ \/ outcome = "noneEligible"
     \/ /\ outcome = "reported"
        /\ Len(selectedRepos) = Len(filteredRepos)
        /\ errorCount = 0

\* Variant: the page counter is kept from the collection before.
BeginCollectResumed ==
  /\ page' = page
  /\ repositories' = <<>>
  /\ pageLog' = <<page>>
  /\ pageLens' = <<>>
  /\ collected' = "running"
  /\ pc' = "fetch"

\* First request of getAllRepositories.
BeginCollect ==
  /\ page' = 1
  /\ repositories' = <<>>
  /\ pageLog' = <<1>>
  /\ pageLens' = <<>>
  /\ collected' = "running"
  /\ pc' = "fetch"

ResetFlow ==
  /\ repos' = <<>>
  /\ filteredRepos' = <<>>
  /\ repoChoices' = <<>>
  /\ selectedRepos' = <<>>
  /\ confirm' = FALSE
  /\ promptInput' = <<>>
  /\ confirmDelete' = ""
  /\ i' = 0
  /\ successCount' = 0
  /\ errorCount' = 0
  /\ calls' = <<>>
  /\ results' = <<>>
  /\ events' = <<>>
  /\ summary' = <<>>
  /\ outcome' = "none"

\* showMainMenu: the operator picks an action.
ChooseAction(action) ==
  /\ pc = "menu"
  /\ IF action = "exit"
       THEN /\ pc' = "exited"
            /\ UNCHANGED <<flow, targetVisibility, collectVars, repos,
                           filteredRepos, repoChoices, promptVars, batchVars,
                           stages, outcome, prev>>
       ELSE /\ flow' = action
            /\ prev' = [flow |-> flow, target |-> targetVisibility,
                        outcome |-> outcome, clean |-> leftClean]
            /\ targetVisibility' = "none"
            /\ stages' = <<"Idle">>
            /\ ResetFlow
            /\ IF action = "visibility"
                 THEN /\ pc' = "target"
                      /\ page' = 1
                      /\ repositories' = <<>>
                      /\ pageLog' = <<>>
                      /\ pageLens' = <<>>
                      /\ collected' = "none"
                 ELSE BeginCollect
  /\ UNCHANGED <<token, login, username, remote>>

\* changeVisibilityFlow: the operator picks the target visibility.
ChooseTarget(target) ==
  /\ pc = "target"
  /\ targetVisibility' = target
  /\ BeginCollect
  /\ UNCHANGED <<token, login, username, remote, flow, repos, filteredRepos,
                 repoChoices, promptVars, batchVars, stages, outcome, prev>>

\* ------------------------------------------------------ getAllRepositories
\* What the caller of getAllRepositories does with the list it gets, up to its
\* next prompt.
AfterCollect(rs) ==
  IF flow = "list"
    THEN /\ repos' = IF Len(rs) = 0 THEN rs ELSE sortRepositories(rs)
         /\ filteredRepos' = <<>>
         /\ repoChoices' = <<>>
         /\ stages' = stages \o <<"Fetched", "Reported">>
         /\ outcome' = IF Len(rs) = 0 THEN "empty" ELSE "listed"
         /\ pc' = "menu"
  ELSE IF Len(rs) = 0
    THEN /\ repos' = rs
         /\ filteredRepos' = <<>>
         /\ repoChoices' = <<>>
         /\ stages' = stages \o <<"Fetched", "Reported">>
         /\ outcome' = "empty"
         /\ pc' = "menu"
  ELSE IF flow = "visibility"
    THEN LET filtered == filterRepos(rs, targetVisibility = "private") IN
         /\ repos' = rs
         /\ filteredRepos' = filtered
         /\ IF Len(filtered) = 0
              THEN /\ repoChoices' = <<>>
                   /\ stages' = stages \o <<"Fetched", "Filtered", "Reported">>
                   /\ outcome' = "noneEligible"
                   /\ pc' = "menu"
              ELSE /\ repoChoices' = choiceValues(filtered)
                   /\ stages' = stages \o <<"Fetched", "Filtered">>
                   /\ outcome' = outcome
                   /\ pc' = "select"
  ELSE /\ repos' = rs
       /\ filteredRepos' = <<>>
       /\ repoChoices' = choiceValues(rs)
       /\ stages' = stages \o <<"Fetched", "Filtered">>
       /\ outcome' = outcome
       /\ pc' = "select"

\* A page arrives.
FetchPageOk ==
  /\ pc = "fetch"
  /\ LET data == listForAuthenticatedUser(remote, PerPage, page)
         all == repositories \o mapRepositories(data)
     IN /\ repositories' = all
        /\ pageLens' = Append(pageLens, Len(data))
        /\ page' = page + 1
        /\ IF hasMoreAfter(data)
             THEN /\ pageLog' = Append(pageLog, page + 1)
                  /\ UNCHANGED <<collected, pc, repos, filteredRepos,
                                 repoChoices, stages, outcome>>
             ELSE /\ pageLog' = pageLog
                  /\ collected' = "ok"
                  /\ AfterCollect(all)
  /\ UNCHANGED <<token, login, username, remote, flow, targetVisibility,
                 promptVars, batchVars, prev>>

\* A page request fails.
FetchPageFail ==
  /\ pc = "fetch"
  /\ LET caught == catchFetchError(repositories)
     IN IF caught.threw
          THEN /\ pc' = "fatal"
               /\ collected' = "failed"
               /\ UNCHANGED <<repos, filteredRepos, repoChoices, stages, outcome>>
          ELSE /\ collected' = "failed"
               /\ AfterCollect(caught.value)
  /\ UNCHANGED <<token, login, username, remote, flow, targetVisibility,
                 page, repositories, pageLog, pageLens,
                 promptVars, batchVars, prev>>

\* ---------------------------------------------------------------- prompts
\* Variant: the update carries the opposite of the target.
mutationCallInverted(repoName) ==
  IF flow = "visibility"
    THEN [op |-> "update", owner |-> username, repo |-> repoName,
          private |-> (targetVisibility # "private")]
    ELSE [op |-> "delete", owner |-> username, repo |-> repoName]

\* Variant: the owner is not this.username.
mutationCallOtherOwner(repoName) ==
  IF flow = "visibility"
    THEN [op |-> "update", owner |-> repoName, repo |-> repoName,
          private |-> (targetVisibility = "private")]
    ELSE [op |-> "delete", owner |-> repoName, repo |-> repoName]

\* Variant: every call addresses the first selected repository.
mutationCallFirst(repoName) ==
  IF flow = "visibility"
    THEN [op |-> "update", owner |-> username, repo |-> selectedRepos[1],
          private |-> (targetVisibility = "private")]
    ELSE [op |-> "delete", owner |-> username, repo |-> selectedRepos[1]]

\* Variant: the visibility loop calls delete as the delete loop does.
mutationCallDelete(repoName) ==
  [op |-> "delete", owner |-> username, repo |-> repoName]

\* The call the batch loop issues for one repository name.
mutationCall(repoName) ==
  IF flow = "visibility"
    THEN [op |-> "update", owner |-> username, repo |-> repoName,
          private |-> (targetVisibility = "private")]
    ELSE [op |-> "delete", owner |-> username, repo |-> repoName]

Event(kind, at, arg) == [ev |-> kind, at |-> at, arg |-> arg]

\* Variant: the loop does not await, the calls of all items go out at once.
StartBatchAllAtOnce(selected) ==
  /\ successCount' = 0
  /\ errorCount' = 0
  /\ i' = 0
  /\ events' = <<Event("progress", 1, Len(selected)), Event("call", 1, Len(selected))>>
  /\ calls' = [j \in 1..Len(selected) |-> mutationCall(selected[j])]
  /\ results' = <<>>
  /\ summary' = <<>>
  /\ pc' = "call"

\* Entry of the batch loop: the counters, the progress bar of the first item
\* and its call.
StartBatch(selected) ==
  /\ successCount' = 0
  /\ errorCount' = 0
  /\ i' = 0
  /\ events' = <<Event("progress", 1, Len(selected)), Event("call", 1, Len(selected))>>
  /\ calls' = <<mutationCall(selected[1])>>
  /\ results' = <<>>
  /\ summary' = <<>>
  /\ pc' = "call"

\* A flow returns to the menu before its batch.
EarlyReturn(passed, how) ==
  /\ stages' = stages \o passed \o <<"Reported">>
  /\ outcome' = how
  /\ pc' = "menu"

\* The operator answers the checkbox prompt.
Select(ticked) ==
  /\ pc = "select"
  /\ LET answer == checkboxAnswer(repoChoices, ticked)
     IN /\ selectedRepos' = answer
        /\ IF nothingSelected(answer)
             THEN EarlyReturn(<<"Selected">>, "noneSelected")
             ELSE /\ stages' = Append(stages, "Selected")
                  /\ outcome' = outcome
                  /\ pc' = IF flow = "delete" THEN "confirmDelete" ELSE "confirm"
  /\ UNCHANGED <<token, login, username, remote, flow, targetVisibility,
                 collectVars, repos, filteredRepos, repoChoices,
                 confirm, promptInput, confirmDelete, batchVars, prev>>

\* The operator answers the yes/no prompt of the visibility flow.
Confirm(answer) ==
  /\ pc = "confirm"
  /\ confirm' = answer
  /\ IF confirmDeclined(answer)
       THEN /\ EarlyReturn(<<"Confirmed">>, "declined")
            /\ UNCHANGED batchVars
       ELSE /\ stages' = stages \o <<"Confirmed", "Executing">>
            /\ outcome' = outcome
            /\ StartBatch(selectedRepos)
  /\ UNCHANGED <<token, login, username, remote, flow, targetVisibility,
                 collectVars, repos, filteredRepos, repoChoices,
                 selectedRepos, promptInput, confirmDelete, prev>>

\* The operator enters a text at the DELETE prompt. The prompt answers only
\* with a text its validate accepts; after any other text it shows the
\* message and keeps asking.
TypeConfirm(input) ==
  /\ pc = "confirmDelete"
  /\ promptInput' = <<input>>
  /\ IF validate(input)
       THEN /\ confirmDelete' = input
            /\ IF deleteDeclined(input)
                 THEN /\ EarlyReturn(<<"Confirmed">>, "declined")
                      /\ UNCHANGED batchVars
                 ELSE /\ stages' = stages \o <<"Confirmed", "Executing">>
                      /\ outcome' = outcome
                      /\ StartBatch(selectedRepos)
       ELSE UNCHANGED <<confirmDelete, pc, stages, outcome, batchVars>>
  /\ UNCHANGED <<token, login, username, remote, flow, targetVisibility,
                 collectVars, repos, filteredRepos, repoChoices,
                 selectedRepos, confirm, prev>>

\* ------------------------------------------------------------- batch loop
applyCall(account, call) ==
  IF call.op = "update"
    THEN remoteUpdate(account, call.repo, call.private)
    ELSE remoteDelete(account, call.repo)

\* The remote answers the call in flight: it was applied, or it failed.
CallReturn(ok) ==
  /\ pc = "call"
  /\ LET n == Len(selectedRepos)
         caught == catchMutationError(ok)
     IN /\ results' = Append(results, ok)
        /\ remote' = IF ok THEN applyCall(remote, calls[Len(calls)]) ELSE remote
        /\ IF caught.threw
             THEN /\ pc' = "fatal"
                  /\ UNCHANGED <<i, successCount, errorCount, events, summary,
                                 stages, outcome>>
             ELSE /\ successCount' = successAfter(successCount, caught.success)
                  /\ errorCount' = errorAfter(errorCount, caught.success)
                  /\ IF delayBeforeNext(i, n)
                       THEN /\ events' = events \o
                                   <<Event(IF caught.success THEN "ok" ELSE "failed", i + 1, n),
                                     Event("delay", i + 1, delayFor(flow))>>
                            /\ pc' = "delay"
                            /\ UNCHANGED <<i, summary, stages, outcome>>
                       ELSE /\ events' = Append(events,
                                   Event(IF caught.success THEN "ok" ELSE "failed", i + 1, n))
                            /\ i' = i + 1
                            /\ summary' = <<[successful |-> successAfter(successCount, caught.success),
                                             failed |-> errorAfter(errorCount, caught.success)]>>
                            /\ stages' = Append(stages, "Reported")
                            /\ outcome' = "reported"
                            /\ pc' = "menu"
  /\ UNCHANGED <<token, login, username, flow, targetVisibility,
                 collectVars, repos, filteredRepos, repoChoices, promptVars,
                 calls, prev>>

\* The pacing delay elapses: next item, its progress bar and its call.
DelayDone ==
  /\ pc = "delay"
  /\ i' = i + 1
  /\ events' = events \o <<Event("progress", i + 2, Len(selectedRepos)),
                           Event("call", i + 2, Len(selectedRepos))>>
  /\ calls' = Append(calls, mutationCall(selectedRepos[i + 2]))
  /\ pc' = "call"
  /\ UNCHANGED <<token, login, username, remote, flow, targetVisibility,
                 collectVars, repos, filteredRepos, repoChoices, promptVars,
                 successCount, errorCount, results, summary,
                 stages, outcome, prev>>

\* ---------------------------------------------------------- specification
Next ==
  \/ Construct
  \/ AuthenticateOk
  \/ AuthenticateFail
  \/ \E action \in MenuActions : ChooseAction(action)
  \/ \E target \in Visibilities : ChooseTarget(target)
  \/ FetchPageOk
  \/ FetchPageFail
  \/ \E ticked \in SUBSET Pickable : Select(ticked)
  \/ \E answer \in BOOLEAN : Confirm(answer)
  \/ \E input \in ConfirmInputs : TypeConfirm(input)
  \/ \E ok \in BOOLEAN : CallReturn(ok)
  \/ DelayDone

Spec == Init /\ [][Next]_vars

\* The remote answers every call and every delay elapses.
FairSpec ==
  /\ Spec
  /\ WF_vars(\E ok \in BOOLEAN : CallReturn(ok))
  /\ WF_vars(DelayDone)

\* Every page request is answered, with a page or with a failure.
FetchFairSpec ==
  /\ Spec
  /\ WF_vars(FetchPageFail \/ FetchPageOk)

TypeOK ==
  /\ pc \in {"boot", "start", "fatal", "menu", "exited", "target", "fetch",
             "select", "confirm", "confirmDelete", "call", "delay"}
  /\ flow \in {"none", "visibility", "delete", "list"}
  /\ targetVisibility \in Visibilities \cup {"none"}
  /\ collected \in {"none", "running", "ok", "failed"}
  /\ i \in 0..MaxRepos
  /\ successCount \in 0..MaxRepos
  /\ errorCount \in 0..MaxRepos

\* ----------------------------------------------------------------- claims
\* C1: count law. When a batch (visibility or delete) prints its summary, all
\* N selected items were attempted, once each, and with k failed calls the
\* summary shows N-k successes and k failures.
CountLaw ==
  summary # <<>> =>
    LET n == Len(selectedRepos)
        k == Cardinality({j \in 1..Len(results) : ~results[j]})
    IN /\ Len(calls) = n
       /\ Len(results) = n
       /\ \A j \in 1..n : calls[j].repo = selectedRepos[j]
       /\ summary[1].successful = n - k
       /\ summary[1].failed = k
       /\ summary[1].successful + summary[1].failed = n

CountLawWitness ==
  /\ summary # <<>>
  /\ flow = "delete"
  /\ summary[1].failed >= 1
  /\ summary[1].successful >= 1
  /\ prev.flow = "visibility"
  /\ prev.outcome = "reported"

\* C2: in the delete flow, once a text other than the literal DELETE has been
\* entered at the confirmation prompt, the operation is cancelled: the flow
\* has returned to the menu as declined and no delete call was issued.
OtherInputCancels ==
  (promptInput # <<>> /\ promptInput[1] # "DELETE") =>
    /\ pc \in {"menu", "exited"}
    /\ outcome = "declined"
    /\ calls = <<>>

\* C3: once a batch executes, the calls go to the selected names one by one in
\* the order of the selection, which is the order of the snapshot restricted
\* to the ticked names, whatever the earlier calls returned; and the batch
\* reaches its summary with one call per selected item.
BatchRunsThrough ==
  /\ [](/\ Len(calls) <= Len(selectedRepos)
        /\ \A j \in 1..Len(calls) : calls[j].repo = selectedRepos[j]
        /\ Len(results) <= Len(calls)
        /\ Len(calls) <= Len(results) + 1
        /\ \A j \in 1..(Len(selectedRepos) - 1) :
              \E a \in 1..Len(repos) :
                /\ repos[a].name = selectedRepos[j]
                /\ \E b \in (a + 1)..Len(repos) :
                      repos[b].name = selectedRepos[j + 1]
        /\ outcome = "reported" => Len(results) = Len(selectedRepos))
  /\ (pc \in {"call", "delay"}) ~> (outcome = "reported" /\ pc = "menu")

BatchRunsThroughWitness ==
  /\ outcome = "reported"
  /\ Len(selectedRepos) >= 2
  /\ ~results[1]
  /\ Len(repos) > PerPage
  /\ Len(calls) = Len(selectedRepos)

RECURSIVE SumOf(_)
SumOf(lens) == IF lens = <<>> THEN 0 ELSE Head(lens) + SumOf(Tail(lens))

\* C4: getAllRepositories is complete or empty. When every page arrived, the
\* list it returns is the pages in the order received, as long as the sum of
\* their lengths; when a page request failed, also after earlier pages
\* arrived, it returns the empty list.
CompleteOrEmpty ==
  /\ (collected = "ok" /\ flow # "list" /\ calls = <<>>) =>
        /\ Len(repos) = Len(remote)
        /\ \A k \in 1..Len(repos) :
              /\ repos[k].name = remote[k].name
              /\ repos[k].private = remote[k].private
        /\ Len(repos) = SumOf(pageLens)
  /\ collected = "failed" => (repos = <<>> /\ outcome = "empty")

CompleteOrEmptyWitness ==
  /\ collected = "failed"
  /\ Len(pageLens) >= 2
  /\ repositories # <<>>
  /\ repos = <<>>

\* C5: the pages are requested as 1, 2, 3, ... with 100 records per page, and
\* the first page shorter than 100 is the last one requested: pages of 100,
\* 100 and 37 records make 3 requests and 237 records; pages of 100, 100 and
\* 100 records make a 4th request, whose empty page ends with 300 records.
PaginationRule ==
  /\ \A j \in 1..Len(pageLog) : pageLog[j] = j
  /\ \A j \in 1..Len(pageLens) : pageLens[j] <= 100
  /\ \A j \in 1..(Len(pageLens) - 1) : pageLens[j] = 100
  /\ collected = "running" =>
        /\ Len(pageLog) = Len(pageLens) + 1
        /\ \A j \in 1..Len(pageLens) : pageLens[j] = 100
  /\ collected = "ok" =>
        /\ Len(pageLog) = Len(pageLens)
        /\ pageLens[Len(pageLens)] < 100
        /\ Len(repositories) = SumOf(pageLens)
  /\ (Len(pageLens) >= 3 /\ SubSeq(pageLens, 1, 3) = <<100, 100, 37>>) =>
        /\ collected = "ok"
        /\ pageLog = <<1, 2, 3>>
        /\ Len(repositories) = 237
  /\ (Len(pageLens) >= 3 /\ SubSeq(pageLens, 1, 3) = <<100, 100, 100>>) =>
        /\ Len(pageLog) = 4
        /\ pageLens = <<100, 100, 100, 0>> =>
              (collected = "ok" /\ Len(repositories) = 300)

PaginationRuleWitness ==
  /\ collected = "ok"
  /\ pageLens = <<100, 100, 100, 0>>
  /\ pageLog = <<1, 2, 3, 4>>
  /\ Len(repos) = 300

PaginationShortWitness ==
  /\ collected = "ok"
  /\ pageLens = <<100, 100, 37>>

\* C6: when the visibility flow has filtered its snapshot, the candidate list
\* holds no record whose private flag equals the target, holds every other
\* record of the snapshot exactly once, and keeps the order of the snapshot.
VisibilityFilter ==
  (flow = "visibility" /\ (pc = "select" \/ outcome = "noneEligible")) =>
    LET isPrivate == (targetVisibility = "private")
    IN /\ \A j \in 1..Len(filteredRepos) : filteredRepos[j].private # isPrivate
       /\ \A k \in 1..Len(repos) :
             Cardinality({j \in 1..Len(filteredRepos) : filteredRepos[j] = repos[k]})
               = IF repos[k].private = isPrivate THEN 0 ELSE 1
       /\ \A j \in 1..(Len(filteredRepos) - 1) :
             \E a \in 1..Len(repos) :
               /\ repos[a] = filteredRepos[j]
               /\ \E b \in (a + 1)..Len(repos) : repos[b] = filteredRepos[j + 1]
       /\ Len(repoChoices) = Len(filteredRepos)
       /\ \A j \in 1..Len(filteredRepos) : repoChoices[j] = filteredRepos[j].name

VisibilityFilterWitness ==
  /\ flow = "visibility"
  /\ pc = "select"
  /\ targetVisibility = "public"
  /\ Len(repos) = 3
  /\ Len(filteredRepos) = 2
  /\ ~repos[2].private

\* The snapshot of the scenario of C7: public "a", public "b", private "c",
\* filtered for the target "private".
ScenarioFiltered ==
  /\ flow = "visibility"
  /\ targetVisibility = "private"
  /\ pc = "select"
  /\ Len(repos) = 3
  /\ repos[1].name = "a" /\ ~repos[1].private
  /\ repos[2].name = "b" /\ ~repos[2].private
  /\ repos[3].name = "c" /\ repos[3].private

\* C7 as stated: in the scenario the filter excludes "c" and "a" is the only
\* candidate surfaced for selection.
ScenarioOnlyA == ScenarioFiltered => repoChoices = <<"a">>

\* C7: in the scenario the filter excludes "c", and the candidates surfaced
\* for selection are "a" and "b", in this order.
ScenarioCandidates ==
  ScenarioFiltered =>
    /\ repoChoices = <<"a", "b">>
    /\ \A j \in 1..Len(filteredRepos) : filteredRepos[j].name # "c"

ScenarioWitness == ScenarioFiltered /\ Len(filteredRepos) = 2

SecondPrivateRunFiltered ==
  /\ flow = "visibility"
  /\ targetVisibility = "private"
  /\ prev.flow = "visibility"
  /\ prev.target = "private"
  /\ prev.outcome = "reported"
  /\ Len(stages) >= 3
  /\ stages[3] = "Filtered"

\* C9 as stated: the second of two successive runs of the visibility flow
\* targeting "private" finds no eligible candidate.
SecondRunNothingEligible ==
  SecondPrivateRunFiltered => filteredRepos = <<>>

\* C9: the second of two successive runs of the visibility flow targeting
\* "private" finds no eligible candidate when the first run left none: all
\* its candidates were selected, confirmed and changed without a failure.
SecondRunAfterCleanFirst ==
  (SecondPrivateRunFiltered /\ prev.clean) =>
    /\ filteredRepos = <<>>
    /\ outcome = "noneEligible"
    /\ calls = <<>>

SecondRunWitness ==
  /\ SecondPrivateRunFiltered
  /\ prev.clean
  /\ prev.outcome = "reported"
  /\ Len(repos) >= 2
  /\ filteredRepos = <<>>

FatalStartup ==
  /\ [](/\ ~token => pc \in {"boot", "fatal"}
        /\ pc = "fatal" =>
             /\ flow = "none"
             /\ username = ""
             /\ pageLog = <<>>
             /\ calls = <<>>
             /\ collected = "none"
        /\ pc \notin {"boot", "start", "fatal"} =>
             /\ token
             /\ username = login
             /\ username # "")
  /\ [][(pc \in {"boot", "start"} /\ pc' \notin {"boot", "start", "fatal"}) =>
          /\ pc = "start"
          /\ pc' = "menu"
          /\ username' = login
          /\ pageLog' = <<>>
          /\ calls' = <<>>]_vars
  /\ [][pc = "fatal" => pc' = "fatal"]_vars

FatalStartupWitness ==
  /\ pc = "fatal"
  /\ token
  /\ username = ""
  /\ pageLog = <<>>


\* C12: at most one remote call (authentication, page request, update,
\* delete) is in flight at any time, and the call for an item is issued only
\* after the call for the item before it has returned.
OneCallInFlight ==
  LET authInFlight == IF pc = "start" THEN 1 ELSE 0
      fetchInFlight == Len(pageLog) - Len(pageLens)
                         - (IF collected = "failed" THEN 1 ELSE 0)
      mutationInFlight == Len(calls) - Len(results)
  IN /\ authInFlight \in {0, 1}
     /\ fetchInFlight \in {0, 1}
     /\ mutationInFlight \in {0, 1}
     /\ authInFlight + fetchInFlight + mutationInFlight <= 1
     /\ fetchInFlight = 1 <=> pc = "fetch"
     /\ mutationInFlight = 1 <=> pc = "call"
     /\ \A k \in 1..Len(events) :
          (events[k].ev = "call" /\ events[k].at > 1) =>
            \E h \in 1..(k - 1) :
              /\ events[h].ev \in {"ok", "failed"}
              /\ events[h].at = events[k].at - 1

OneCallInFlightWitness ==
  /\ pc = "call"
  /\ Len(calls) = 2
  /\ Len(results) = 1
  /\ ~results[1]
  /\ collected = "ok"
  /\ Len(pageLog) >= 3


\* C13: a batch of N items waits exactly N-1 pacing delays: one after each
\* attempt but the last, whether the attempt succeeded or failed, and before
\* the next attempt starts; none after the last item. The delay is 100 ms in
\* the visibility flow and 200 ms in the delete flow.
PacingDelays ==
  LET n == Len(selectedRepos)
      delays == {k \in 1..Len(events) : events[k].ev = "delay"}
  IN /\ \A k \in delays :
          /\ events[k].arg = IF flow = "visibility" THEN 100 ELSE 200
          /\ flow \in {"visibility", "delete"}
          /\ events[k].at < n
          /\ k > 1
          /\ events[k - 1].ev \in {"ok", "failed"}
          /\ events[k - 1].at = events[k].at
          /\ \A h \in delays : events[h].at = events[k].at => h = k
     /\ \A k \in 1..Len(events) :
          (events[k].ev \in {"ok", "failed"} /\ events[k].at < n) =>
            /\ k < Len(events)
            /\ events[k + 1].ev = "delay"
     /\ \A k \in 1..Len(events) :
          (events[k].ev = "progress" /\ events[k].at > 1) =>
            /\ events[k - 1].ev = "delay"
            /\ events[k - 1].at = events[k].at - 1
     /\ pc = "delay" <=> (events # <<>> /\ events[Len(events)].ev = "delay")
     /\ outcome = "reported" =>
          /\ Cardinality(delays) = n - 1
          /\ events[Len(events)].ev \in {"ok", "failed"}
          /\ events[Len(events)].at = n

PacingDelaysWitness ==
  /\ outcome = "reported"
  /\ flow = "delete"
  /\ Len(selectedRepos) = 3
  /\ ~results[2]
  /\ Cardinality({k \in 1..Len(events) : events[k].ev = "delay"}) = 2


\* C14: the progress indicator of item i (i of N) is written after the
\* attempt on item i has returned, so N of N (100%) is written only when all
\* N items have been attempted.
ProgressAfterAttempt ==
  \A k \in 1..Len(events) :
    events[k].ev = "progress" =>
      /\ Len(results) >= events[k].at
      /\ \E h \in 1..(k - 1) :
           /\ events[h].ev \in {"ok", "failed"}
           /\ events[h].at = events[k].at


\* C15: the list getAllRepositories returned is read-only: whatever menu
\* operation runs on it (list, change visibility, delete) and whatever helper
\* that operation calls (sort, filter), the flow's list keeps the records and
\* the order in which it was returned.
SnapshotReadOnly ==
  collected = "ok" => repos = repositories


\* C16: nothing is cached across menu operations. Every operation starts with
\* empty locals and collects the listing itself from page 1 before it lists
\* or offers anything; what it offers for selection is the listing as the
\* remote holds it then, not a snapshot or selection of an earlier operation.
NoCaching ==
  /\ [](/\ pageLog # <<>> => pageLog[1] = 1
        /\ pc \in {"select", "confirm", "confirmDelete"} =>
             /\ collected = "ok"
             /\ repos = repositories
             /\ Len(repos) = Len(remote)
             /\ \A k \in 1..Len(repos) :
                  /\ repos[k].name = remote[k].name
                  /\ repos[k].private = remote[k].private
             /\ \A j \in 1..Len(selectedRepos) :
                  \E k \in 1..Len(remote) : remote[k].name = selectedRepos[j]
        /\ outcome = "listed" => (collected = "ok" /\ repos # <<>>))
  /\ [][(pc = "menu" /\ pc' \notin {"menu", "exited"}) =>
          /\ repos' = <<>>
          /\ repositories' = <<>>
          /\ repoChoices' = <<>>
          /\ selectedRepos' = <<>>
          /\ pageLens' = <<>>
          /\ pc' \in {"target", "fetch"}]_vars
  /\ [][(pc' \in {"select", "menu"} /\ pc \notin {"select", "menu", "start"}
           /\ outcome' \in {"none", "listed", "empty", "noneEligible"}) =>
          (pc = "fetch" /\ collected' \in {"ok", "failed"})]_vars

NoCachingWitness ==
  /\ pc = "select"
  /\ flow = "visibility"
  /\ prev.flow = "delete"
  /\ prev.outcome = "reported"
  /\ pageLog = <<1, 2, 3>>
  /\ Len(repos) = 299


\* C17: every update and delete call is issued with the owner set to the
\* identity the authentication at startup established, and this identity
\* does not change afterwards.
OwnershipBinding ==
  /\ [](/\ \A j \in 1..Len(calls) :
             /\ calls[j].owner = username
             /\ calls[j].owner = login
             /\ calls[j].owner \in Logins
        /\ pc = "start" => username = ""
        /\ calls # <<>> => username # "")
  /\ [][username # "" => username' = username]_vars
  /\ [][username' # username => (pc = "start" /\ username' = login)]_vars

OwnershipBindingWitness ==
  /\ Len(calls) = 2
  /\ calls[1].op = "delete"
  /\ calls[2].owner = "hubot"
  /\ username = "hubot"
  /\ prev.flow = "visibility"
  /\ prev.outcome = "reported"


\* C18: the names the mutation calls go to are the names the operator
\* selected and confirmed, as many as the confirmation prompt counted; each
\* is a name of the snapshot fetched in this flow, and in the visibility flow
\* the name of a record whose visibility differed from the target when it
\* was fetched.
BatchItemSet ==
  LET called == {calls[j].repo : j \in 1..Len(calls)}
      selected == {selectedRepos[j] : j \in 1..Len(selectedRepos)}
  IN /\ called \subseteq selected
     /\ selected \subseteq {repoChoices[j] : j \in 1..Len(repoChoices)}
     /\ Cardinality(selected) = Len(selectedRepos)
     /\ \A name \in selected :
          \E k \in 1..Len(repos) :
            /\ repos[k].name = name
            /\ repos[k] = repositories[k]
            /\ flow = "visibility" =>
                 repos[k].private # (targetVisibility = "private")
     /\ outcome = "reported" =>
          /\ called = selected
          /\ Cardinality(called) = Len(selectedRepos)
          /\ Len(calls) = Cardinality(called)

BatchItemSetWitness ==
  /\ outcome = "reported"
  /\ flow = "visibility"
  /\ targetVisibility = "public"
  /\ Len(selectedRepos) = 2
  /\ Len(repoChoices) = 3
  /\ Len(calls) = 2


\* C19: getAllRepositories returns: a collection that is running ends, with
\* the list or with a failure. On success it made floor(total/100)+1 page
\* requests; a further page is requested only right after a full page, and
\* none after a short page or a failure.
CollectionTerminates ==
  /\ [](collected = "ok" =>
          /\ Len(pageLog) = (Len(repositories) \div 100) + 1
          /\ Len(pageLens) = Len(pageLog)
          /\ pc # "fetch")
  /\ [](collected = "failed" => pc # "fetch")
  /\ [][(pc = "fetch" /\ pageLog' # pageLog) =>
          /\ collected' = "running"
          /\ pageLens'[Len(pageLens')] = 100
          /\ pageLog' = Append(pageLog, Len(pageLog) + 1)]_vars
  /\ [][(collected \in {"ok", "failed"} /\ pageLog' # pageLog) =>
          (pc = "menu" /\ Len(pageLog') <= 1)]_vars
  /\ (collected = "running") ~> (collected \in {"ok", "failed"})

CollectionTerminatesWitness ==
  /\ collected = "ok"
  /\ Len(repositories) = 299
  /\ Len(pageLog) = 3
  /\ prev.flow = "delete"


\* C20: the mutation issued matches the menu action: the list action issues
\* no call and leaves the remote alone, the visibility flow issues only
\* updates, all carrying the target chosen at the start of the flow, and
\* never removes a repository, and the delete flow issues only deletes.
ActionIntegrity ==
  /\ [](flow = "list" => calls = <<>>)
  /\ [](flow = "visibility" =>
          \A j \in 1..Len(calls) :
            /\ calls[j].op = "update"
            /\ calls[j].private = (targetVisibility = "private"))
  /\ [](flow = "delete" =>
          \A j \in 1..Len(calls) : calls[j].op = "delete")
  /\ [][(calls' # calls /\ calls' # <<>>) =>
          /\ flow \in {"visibility", "delete"}
          /\ flow' = flow
          /\ targetVisibility' = targetVisibility]_vars
  /\ [][remote' # remote =>
          /\ flow \in {"visibility", "delete"}
          /\ flow = "visibility" => Len(remote') = Len(remote)
          /\ flow = "delete" => Len(remote') = Len(remote) - 1]_vars

ActionIntegrityWitness ==
  /\ flow = "visibility"
  /\ targetVisibility = "private"
  /\ Len(calls) = 2
  /\ calls[1].op = "update" /\ calls[2].op = "update"
  /\ calls[1].private /\ calls[2].private
  /\ results = <<TRUE, TRUE>>
  /\ prev.flow = "delete"

====
